---- MODULE Spec2Model ----
(***************************************************************************)
(* Collaborative canvas: the server's per-room operation history           *)
(* (DrawingStateManager), the room registry (RoomManager), the socket.io   *)
(* connection handlers of the server, and the browser client's replica of  *)
(* the history (CollaborativeCanvas / WebSocketClient).                    *)
(*                                                                         *)
(* Abstractions, stated once:                                              *)
(*  - Date.now() and Math.random() are not computed; the pair is a value   *)
(*    `stamp` chosen nondeterministically from Stamps at each commit, so   *)
(*    two commits may or may not draw the same pair.                       *)
(*  - `seq` is a history field of an operation record: the ordinal of the  *)
(*    addOperation call that created it.  The program has no such field;   *)
(*    it only tells two operation instances apart.                         *)
(*  - color, lineWidth and tool of a stroke travel together as `style`.    *)
(*  - a JS Map is a function whose DOMAIN is the set of keys.              *)
(***************************************************************************)
EXTENDS Integers, Sequences, FiniteSets, TLC

VARIABLES
  rooms,            \* RoomManager.rooms: roomId -> DrawingStateManager
  colorIndex,       \* RoomManager.colorIndex
  status,           \* per socket: "open" | "closed"
  currentRoom,      \* per socket: closure variable currentRoom
  currentUser,      \* per socket: closure variable currentUser (Null or user data)
  inflightStrokes,  \* per socket: Map strokeId -> {style, points}
  sioRooms,         \* per socket: socket.io rooms the socket has join()ed
  outbox,           \* per socket: messages emitted to it, not yet handled by its client
  operationHistory, \* per client: CollaborativeCanvas.operationHistory
  currentIndex,     \* per client: CollaborativeCanvas.currentIndex
  users,            \* per client: WebSocketClient.users
  remoteStrokes,    \* per client: CollaborativeCanvas.remoteStrokes
  nOps,             \* history: number of addOperation calls so far
  last              \* history: the handler or method that ran last, and its result

vars == <<rooms, colorIndex, status, currentRoom, currentUser, inflightStrokes,
          sioRooms, outbox, operationHistory, currentIndex, users, remoteStrokes,
          nOps, last>>

serverVars == <<rooms, colorIndex, status, currentRoom, currentUser,
                inflightStrokes, sioRooms>>

clientVars == <<operationHistory, currentIndex, users, remoteStrokes>>

----------------------------------------------------------------------------
(* Bounds and input sets *)

\* addOperation calls in one run of the DrawingStateManager driver
MaxCalls == 5

\* strokes committed by the server in one run
MaxOps == 2

\* messages waiting in one socket's outbox
MaxQueue == 1

\* join-room messages handled in one run
MaxJoins == 2

\* addUserToRoom calls in one run of the RoomManager driver
MaxAdds == 13

\* points accumulated in one stroke buffer
MaxPoints == 2

Conns == {"c1", "c2", "c3"}

RoomIds == {"default", "r1"}

StrokeIds == {"s1"}

Points == {1}

Styles == {"brush"}

\* cursor coordinates a cursor-move may carry (a new user's cursor is at 0, 0)
Coords == {1}

Stamps == {0, 1}

\* the roomId field of a join-room payload may be missing
NoRoomId == ""

\* the strokeId field of a draw:start, draw:append or draw:end payload may
\* be missing: the handler then reads undefined and uses it as the Map key
NoStrokeId == "undefined"

\* the point field of a draw:start payload may be missing: the handler then
\* reads undefined and stores it as the first point
NoPoint == 0

Null == [type |-> "null"]

----------------------------------------------------------------------------
(* DrawingStateManager *)

\* a Map with no keys
EmptyMap == [k \in {} |-> k]

\* Map.set(k, v)
MapSet(m, k, v) == [x \in DOMAIN m \cup {k} |-> IF x = k THEN v ELSE m[x]]

\* Map.delete(k)
\* Map.clear() where Map.delete(k) was meant
MapClear(m, k) == EmptyMap

MapDelete(m, k) == [x \in DOMAIN m \ {k} |-> m[x]]

NewDrawingStateManager ==
  [operations |-> <<>>, currentIndex |-> -1, users |-> EmptyMap]

\* Array.prototype.slice(0, n) on a sequence
Slice(s, n) ==
  SubSeq(s, 1, IF n < 0 THEN 0 ELSE IF n > Len(s) THEN Len(s) ELSE n)

\* the operation record addOperation builds
MakeOp(operation, stamp, n) ==
  [type     |-> operation.type,
   userId   |-> operation.userId,
   strokeId |-> operation.strokeId,
   points   |-> operation.points,
   style    |-> operation.style,
   id       |-> <<operation.userId, stamp>>,
   seq      |-> n]

\* addOperation without the slice of line 21: the redo tail survives an append
TruncatedNever(room) == room.operations

Truncated(room) ==
  IF room.currentIndex < Len(room.operations) - 1
  THEN Slice(room.operations, room.currentIndex + 1)
  ELSE room.operations

\* addOperation without the currentIndex++ of line 32
AddOperationNoAdvance(room, operation, stamp, n) ==
  [room EXCEPT !.operations = Append(Truncated(room), MakeOp(operation, stamp, n))]

\* addOperation that puts the new operation first instead of last
AddOperationFront(room, operation, stamp, n) ==
  [room EXCEPT !.operations   = <<MakeOp(operation, stamp, n)>> \o Truncated(room),
               !.currentIndex = room.currentIndex + 1]

\* room after addOperation(operation); the returned op is the last element
AddOperation(room, operation, stamp, n) ==
  [room EXCEPT !.operations   = Append(Truncated(room), MakeOp(operation, stamp, n)),
               !.currentIndex = room.currentIndex + 1]

\* JS arrays are 0-based: operations[i]
At(ops, i) == ops[i + 1]

\* undo result built before the pointer is moved: reports the old index
UndoResultStale(room) ==
  IF room.currentIndex < 0
  THEN Null
  ELSE [type         |-> "undo",
        operation    |-> At(room.operations, room.currentIndex),
        currentIndex |-> room.currentIndex]

UndoResult(room) ==
  IF room.currentIndex < 0
  THEN Null
  ELSE [type         |-> "undo",
        operation    |-> At(room.operations, room.currentIndex),
        currentIndex |-> room.currentIndex - 1]

\* undo without the guard of line 42
UndoRoomUnguarded(room) ==
  [room EXCEPT !.currentIndex = room.currentIndex - 1]

UndoRoom(room) ==
  IF room.currentIndex < 0
  THEN room
  ELSE [room EXCEPT !.currentIndex = room.currentIndex - 1]

\* redo whose result carries the pointer read before the increment of
\* line 63
RedoResultStale(room) ==
  IF room.currentIndex >= Len(room.operations) - 1
  THEN Null
  ELSE [type         |-> "redo",
        operation    |-> At(room.operations, room.currentIndex + 1),
        currentIndex |-> room.currentIndex]

RedoResult(room) ==
  IF room.currentIndex >= Len(room.operations) - 1
  THEN Null
  ELSE [type         |-> "redo",
        operation    |-> At(room.operations, room.currentIndex + 1),
        currentIndex |-> room.currentIndex + 1]

\* redo that jumps to the end of the log instead of one step
RedoRoomToEnd(room) ==
  IF room.currentIndex >= Len(room.operations) - 1
  THEN room
  ELSE [room EXCEPT !.currentIndex = Len(room.operations) - 1]

RedoRoom(room) ==
  IF room.currentIndex >= Len(room.operations) - 1
  THEN room
  ELSE [room EXCEPT !.currentIndex = room.currentIndex + 1]

\* statistics that allow redo whenever the log is not empty past the pointer
\* or at it
GetStatsRedoAtEnd(room) ==
  [totalOperations |-> Len(room.operations),
   currentIndex    |-> room.currentIndex,
   activeUsers     |-> Cardinality(DOMAIN room.users),
   canUndo         |-> room.currentIndex >= 0,
   canRedo         |-> room.currentIndex < Len(room.operations)]

GetStats(room) ==
  [totalOperations |-> Len(room.operations),
   currentIndex    |-> room.currentIndex,
   activeUsers     |-> Cardinality(DOMAIN room.users),
   canUndo         |-> room.currentIndex >= 0,
   canRedo         |-> room.currentIndex < Len(room.operations) - 1]

\* the whole log, hidden operations included
GetCurrentStateAll(room) == room.operations

GetCurrentState(room) == Slice(room.operations, room.currentIndex + 1)

\* clear that resets the pointer and keeps the array
ClearRoomKeepLog(room) ==
  [room EXCEPT !.currentIndex = -1]

ClearRoom(room) ==
  [room EXCEPT !.operations = <<>>, !.currentIndex = -1]

----------------------------------------------------------------------------
(* State after the server module has loaded and the sockets of `open` have  *)
(* connected: every such socket with currentRoom = 'default', currentUser   *)
(* null and no stroke in flight.  The other sockets of Conns never connect. *)

NoCall == [ev |-> "init", conn |-> "", room |-> "", ok |-> FALSE,
           pre |-> Null, prevEv |-> ""]

InitSockets(open) ==
  /\ colorIndex = 0
  /\ status = [c \in Conns |-> IF c \in open THEN "open" ELSE "closed"]
  /\ currentRoom = [c \in Conns |-> "default"]
  /\ currentUser = [c \in Conns |-> Null]
  /\ inflightStrokes = [c \in Conns |-> EmptyMap]
  /\ sioRooms = [c \in Conns |-> {}]
  /\ outbox = [c \in Conns |-> <<>>]
  /\ operationHistory = [c \in Conns |-> <<>>]
  /\ currentIndex = [c \in Conns |-> -1]
  /\ users = [c \in Conns |-> EmptyMap]
  /\ remoteStrokes = [c \in Conns |-> EmptyMap]
  /\ nOps = 0
  /\ last = NoCall

----------------------------------------------------------------------------
(* Driver of one DrawingStateManager object: the methods addOperation,     *)
(* undo, redo and clear called in any order on new DrawingStateManager().  *)
(* `last` keeps the call, whether it returned non-null, the object before  *)
(* the call and the name of the call before it.                            *)

DriverRoom == "default"

DriverAuthors == {"c1", "c2"}

DriverOperation(u) ==
  [type |-> "draw", userId |-> u, strokeId |-> "s1", points |-> <<1>>,
   style |-> "brush"]

Called(ev, ok) ==
  last' = [ev |-> ev, conn |-> "", room |-> DriverRoom, ok |-> ok,
           pre |-> rooms[DriverRoom], prevEv |-> last.ev]

InitState ==
  /\ InitSockets({})
  /\ rooms = [r \in {DriverRoom} |-> NewDrawingStateManager]

CallAddOperation(u) ==
  /\ nOps < MaxCalls
  /\ rooms' = [rooms EXCEPT ![DriverRoom] =
                 AddOperation(@, DriverOperation(u), nOps + 1, nOps + 1)]
  /\ nOps' = nOps + 1
  /\ Called("addOperation", TRUE)
  /\ UNCHANGED <<colorIndex, status, currentRoom, currentUser, inflightStrokes,
                 sioRooms, outbox, clientVars>>

CallUndo ==
  /\ rooms' = [rooms EXCEPT ![DriverRoom] = UndoRoom(@)]
  /\ Called("undo", UndoResult(rooms[DriverRoom]) # Null)
  /\ UNCHANGED <<colorIndex, status, currentRoom, currentUser, inflightStrokes,
                 sioRooms, outbox, clientVars, nOps>>

CallRedo ==
  /\ rooms' = [rooms EXCEPT ![DriverRoom] = RedoRoom(@)]
  /\ Called("redo", RedoResult(rooms[DriverRoom]) # Null)
  /\ UNCHANGED <<colorIndex, status, currentRoom, currentUser, inflightStrokes,
                 sioRooms, outbox, clientVars, nOps>>

CallClear ==
  /\ rooms' = [rooms EXCEPT ![DriverRoom] = ClearRoom(@)]
  /\ Called("clear", TRUE)
  /\ UNCHANGED <<colorIndex, status, currentRoom, currentUser, inflightStrokes,
                 sioRooms, outbox, clientVars, nOps>>

NextState ==
  \/ \E u \in DriverAuthors : CallAddOperation(u)
  \/ CallUndo
  \/ CallRedo
  \/ CallClear

SpecState == InitState /\ [][NextState]_vars

----------------------------------------------------------------------------
(* RoomManager *)

PaletteSize == 12

\* the user data addUserToRoom builds; colors are palette positions
UserData(userId, userName, ci) ==
  [id        |-> userId,
   name      |-> IF userName = "" THEN <<"User", userId>> ELSE userName,
   color     |-> ci % PaletteSize,
   cursor    |-> <<0, 0>>,
   isDrawing |-> FALSE]

GetOrCreateRoom(rs, roomId) ==
  IF roomId \in DOMAIN rs THEN rs ELSE MapSet(rs, roomId, NewDrawingStateManager)

GetRoomStats(rs, roomId) ==
  IF roomId \in DOMAIN rs THEN GetStats(rs[roomId]) ELSE Null

\* addUserToRoom that draws the color from the number of users in the room
AddUserToRoomPerRoom(rs, roomId, userId, userName, ci) ==
  LET rs1 == GetOrCreateRoom(rs, roomId)
  IN  [rs1 EXCEPT ![roomId].users =
         MapSet(@, userId,
                UserData(userId, userName, Cardinality(DOMAIN rs1[roomId].users)))]

\* rooms after addUserToRoom(roomId, userId, userName)
AddUserToRoom(rs, roomId, userId, userName, ci) ==
  LET rs1 == GetOrCreateRoom(rs, roomId)
  IN  [rs1 EXCEPT ![roomId].users = MapSet(@, userId, UserData(userId, userName, ci))]

\* rooms after removeUserFromRoom(roomId, userId)
\* removeUserFromRoom without the deletion of an emptied room
RemoveUserKeepRoom(rs, roomId, userId) ==
  IF roomId \notin DOMAIN rs
  THEN rs
  ELSE [rs EXCEPT ![roomId].users = MapDelete(@, userId)]

RemoveUserFromRoom(rs, roomId, userId) ==
  IF roomId \notin DOMAIN rs
  THEN rs
  ELSE LET left == MapDelete(rs[roomId].users, userId)
       IN  IF DOMAIN left = {}
           THEN MapDelete(rs, roomId)
           ELSE [rs EXCEPT ![roomId].users = left]

\* updateUserCursor that creates the presence record of an unknown user
UpdateUserCursorUpsert(rs, roomId, userId, cursor, isDrawing) ==
  IF roomId \in DOMAIN rs
  THEN [rs EXCEPT ![roomId].users =
          MapSet(@, userId,
                 IF userId \in DOMAIN @
                 THEN [@[userId] EXCEPT !.cursor = cursor, !.isDrawing = isDrawing]
                 ELSE [id |-> userId, cursor |-> cursor, isDrawing |-> isDrawing])]
  ELSE rs

UpdateUserCursor(rs, roomId, userId, cursor, isDrawing) ==
  IF roomId \in DOMAIN rs /\ userId \in DOMAIN rs[roomId].users
  THEN [rs EXCEPT ![roomId].users[userId] =
          [@ EXCEPT !.cursor = cursor, !.isDrawing = isDrawing]]
  ELSE rs

----------------------------------------------------------------------------
(* RoomManager driver: one registry, starting empty, on which addUserToRoom  *)
(* and removeUserFromRoom are called for the room 'default' and the users    *)
(* c1 and c2, in any order.  No socket is connected.                         *)

InitRegistry ==
  /\ InitSockets({})
  /\ rooms = EmptyMap

CallAddUserToRoom(r, u) ==
  /\ colorIndex < MaxAdds
  /\ rooms' = AddUserToRoom(rooms, r, u, "", colorIndex)
  /\ colorIndex' = colorIndex + 1
  /\ last' = [ev |-> "addUserToRoom", conn |-> u, room |-> r,
              ok |-> TRUE, pre |-> Null, prevEv |-> ""]
  /\ UNCHANGED <<status, currentRoom, currentUser, inflightStrokes, sioRooms,
                 outbox, clientVars, nOps>>

CallRemoveUserFromRoom(r, u) ==
  /\ rooms' = RemoveUserFromRoom(rooms, r, u)
  /\ last' = [ev |-> "removeUserFromRoom", conn |-> u, room |-> r,
              ok |-> r \in DOMAIN rooms, pre |-> Null, prevEv |-> ""]
  /\ UNCHANGED <<colorIndex, status, currentRoom, currentUser, inflightStrokes,
                 sioRooms, outbox, clientVars, nOps>>

NextRegistry ==
  \/ \E r \in RoomIds, u \in DriverAuthors : CallAddUserToRoom(r, u)
  \/ \E r \in RoomIds, u \in DriverAuthors : CallRemoveUserFromRoom(r, u)

SpecRegistry == InitRegistry /\ [][NextRegistry]_vars

----------------------------------------------------------------------------
(* socket.io: rooms and emits *)

\* sockets socket.io holds in room r
InRoom(r) == {c \in Conns : status[c] = "open" /\ r \in sioRooms[c]}

\* io.to(r): every socket of the room
ToAll(r) == InRoom(r)

\* socket.to(r) on socket c: every socket of the room but c
ToOthers(c, r) == InRoom(r) \ {c}

HasSpace(targets) == \A t \in targets : Len(outbox[t]) < MaxQueue

\* one emit of msg to each socket of targets
Emit(targets, msg) ==
  outbox' = [t \in Conns |->
               IF t \in targets THEN Append(outbox[t], msg) ELSE outbox[t]]

Handled(ev, c, r, ok) ==
  last' = [ev |-> ev, conn |-> c, room |-> r, ok |-> ok,
           pre |-> Null, prevEv |-> ""]

----------------------------------------------------------------------------
(* Server: the handlers registered in io.on('connection') *)

Init ==
  /\ InitSockets({"c1", "c2"})
  /\ rooms = EmptyMap

JoinRoom(c, roomId, userName) ==
  LET r        == IF roomId = NoRoomId THEN "default" ELSE roomId
      rs       == AddUserToRoom(rooms, r, c, userName, colorIndex)
      userData == UserData(c, userName, colorIndex)
      others   == (InRoom(r) \ {c})
  IN  /\ status[c] = "open"
      /\ HasSpace(others \cup {c})
      /\ currentRoom' = [currentRoom EXCEPT ![c] = r]
      /\ sioRooms' = [sioRooms EXCEPT ![c] = @ \cup {r}]
      /\ rooms' = rs
      /\ colorIndex' = colorIndex + 1
      /\ currentUser' = [currentUser EXCEPT ![c] = userData]
      /\ outbox' = [t \in Conns |->
                      IF t = c
                      THEN Append(outbox[t],
                                  [type       |-> "init-state",
                                   userId     |-> c,
                                   user       |-> userData,
                                   users      |-> rs[r].users,
                                   operations |-> GetCurrentState(rs[r])])
                      ELSE IF t \in others
                      THEN Append(outbox[t], [type |-> "user-joined", user |-> userData])
                      ELSE outbox[t]]
      /\ Handled("join-room", c, r, TRUE)
      /\ UNCHANGED <<status, inflightStrokes, clientVars, nOps>>

DrawStart(c, strokeId, style, point) ==
  LET r == currentRoom[c]
  IN  /\ status[c] = "open"
      /\ HasSpace(ToOthers(c, r))
      /\ inflightStrokes' = [inflightStrokes EXCEPT ![c] =
             MapSet(@, strokeId, [style |-> style, points |-> <<point>>])]
      /\ Emit(ToOthers(c, r), [type |-> "draw:start", strokeId |-> strokeId,
                                style |-> style, point |-> point])
      /\ Handled("draw:start", c, r, TRUE)
      /\ UNCHANGED <<rooms, colorIndex, status, currentRoom, currentUser,
                     sioRooms, clientVars, nOps>>

\* draw:append that starts a buffer when the stroke id has none
DrawAppendUpsert(c, strokeId, points) ==
  LET r == currentRoom[c]
      known == strokeId \in DOMAIN inflightStrokes[c]
      takes == Len(points) > 0
      held  == IF known THEN inflightStrokes[c][strokeId]
               ELSE [style |-> CHOOSE y \in Styles : TRUE, points |-> <<>>]
  IN  /\ status[c] = "open"
      /\ takes => /\ HasSpace(ToOthers(c, r))
                   /\ Len(held.points) + Len(points) <= MaxPoints
      /\ IF takes
         THEN /\ inflightStrokes' = [inflightStrokes EXCEPT ![c] =
                   MapSet(@, strokeId, [held EXCEPT !.points = @ \o points])]
              /\ Emit(ToOthers(c, r), [type |-> "draw:append", strokeId |-> strokeId,
                                        points |-> points])
         ELSE UNCHANGED <<inflightStrokes, outbox>>
      /\ Handled("draw:append", c, r, takes)
      /\ UNCHANGED <<rooms, colorIndex, status, currentRoom, currentUser,
                     sioRooms, clientVars, nOps>>

\* draw:append on one buffer map shared by all sockets: the batch goes to
\* every buffer of that stroke id
DrawAppendShared(c, strokeId, points) ==
  LET r == currentRoom[c]
      known == strokeId \in DOMAIN inflightStrokes[c]
      takes == known /\ Len(points) > 0
  IN  /\ status[c] = "open"
      /\ takes => /\ HasSpace(ToOthers(c, r))
                   /\ \A t \in Conns :
                        strokeId \in DOMAIN inflightStrokes[t] =>
                          Len(inflightStrokes[t][strokeId].points) + Len(points)
                            <= MaxPoints
      /\ IF takes
         THEN /\ inflightStrokes' =
                   [t \in Conns |->
                      IF strokeId \in DOMAIN inflightStrokes[t]
                      THEN [inflightStrokes[t] EXCEPT ![strokeId].points = @ \o points]
                      ELSE inflightStrokes[t]]
              /\ Emit(ToOthers(c, r), [type |-> "draw:append", strokeId |-> strokeId,
                                        points |-> points])
         ELSE UNCHANGED <<inflightStrokes, outbox>>
      /\ Handled("draw:append", c, r, takes)
      /\ UNCHANGED <<rooms, colorIndex, status, currentRoom, currentUser,
                     sioRooms, clientVars, nOps>>

DrawAppend(c, strokeId, points) ==
  LET r == currentRoom[c]
      known == strokeId \in DOMAIN inflightStrokes[c]
      takes == known /\ Len(points) > 0
  IN  /\ status[c] = "open"
      /\ takes => /\ HasSpace(ToOthers(c, r))
                   /\ Len(inflightStrokes[c][strokeId].points) + Len(points) <= MaxPoints
      /\ IF takes
         THEN /\ inflightStrokes' = [inflightStrokes EXCEPT ![c][strokeId].points =
                                       @ \o points]
              /\ Emit(ToOthers(c, r), [type |-> "draw:append", strokeId |-> strokeId,
                                        points |-> points])
         ELSE UNCHANGED <<inflightStrokes, outbox>>
      /\ Handled("draw:append", c, r, takes)
      /\ UNCHANGED <<rooms, colorIndex, status, currentRoom, currentUser,
                     sioRooms, clientVars, nOps>>

\* draw:end without the inflightStrokes.delete of line 136
DrawEndKeepsBuffer(c, strokeId, stamp) ==
  LET r == currentRoom[c]
      commits == strokeId \in DOMAIN inflightStrokes[c] /\ r \in DOMAIN rooms
  IN  /\ status[c] = "open"
      /\ commits => (nOps < MaxOps /\ HasSpace(ToAll(r)))
      /\ IF commits
         THEN LET s    == inflightStrokes[c][strokeId]
                  room == AddOperation(rooms[r],
                            [type |-> "draw", userId |-> c, strokeId |-> strokeId,
                             points |-> s.points, style |-> s.style],
                            stamp, nOps + 1)
              IN  /\ rooms' = [rooms EXCEPT ![r] = room]
                  /\ nOps' = nOps + 1
                  /\ UNCHANGED inflightStrokes
                  /\ Emit(ToAll(r), [type |-> "draw:final",
                                      operation |-> room.operations[Len(room.operations)]])
         ELSE UNCHANGED <<rooms, nOps, inflightStrokes, outbox>>
      /\ Handled("draw:end", c, r, commits)
      /\ UNCHANGED <<colorIndex, status, currentRoom, currentUser, sioRooms,
                     clientVars>>

DrawEnd(c, strokeId, stamp) ==
  LET r == currentRoom[c]
      commits == strokeId \in DOMAIN inflightStrokes[c] /\ r \in DOMAIN rooms
  IN  /\ status[c] = "open"
      /\ commits => (nOps < MaxOps /\ HasSpace(ToAll(r)))
      /\ IF commits
         THEN LET s    == inflightStrokes[c][strokeId]
                  room == AddOperation(rooms[r],
                            [type |-> "draw", userId |-> c, strokeId |-> strokeId,
                             points |-> s.points, style |-> s.style],
                            stamp, nOps + 1)
              IN  /\ rooms' = [rooms EXCEPT ![r] = room]
                  /\ nOps' = nOps + 1
                  /\ inflightStrokes' = [inflightStrokes EXCEPT ![c] =
                                           MapDelete(@, strokeId)]
                  /\ Emit(ToAll(r), [type |-> "draw:final",
                                      operation |-> room.operations[Len(room.operations)]])
         ELSE UNCHANGED <<rooms, nOps, inflightStrokes, outbox>>
      /\ Handled("draw:end", c, r, commits)
      /\ UNCHANGED <<colorIndex, status, currentRoom, currentUser, sioRooms,
                     clientVars>>

\* per-user undo: only the author of the operation at the pointer may undo it
UndoOwnOnly(c) ==
  LET r  == currentRoom[c]
      ok == /\ r \in DOMAIN rooms
            /\ UndoResult(rooms[r]) # Null
            /\ UndoResult(rooms[r]).operation.userId = c
  IN  /\ status[c] = "open"
      /\ ok => HasSpace(ToAll(r))
      /\ IF ok
         THEN /\ rooms' = [rooms EXCEPT ![r] = UndoRoom(@)]
              /\ Emit(ToAll(r), UndoResult(rooms[r]))
         ELSE UNCHANGED <<rooms, outbox>>
      /\ Handled("undo", c, r, ok)
      /\ UNCHANGED <<colorIndex, status, currentRoom, currentUser, inflightStrokes,
                     sioRooms, clientVars, nOps>>

CursorMove(c, x, y, isDrawing) ==
  LET r == currentRoom[c]
  IN  /\ status[c] = "open"
      /\ HasSpace(ToOthers(c, r))
      /\ rooms' = UpdateUserCursor(rooms, r, c, <<x, y>>, isDrawing)
      /\ Emit(ToOthers(c, r), [type |-> "cursor-move", userId |-> c,
                                x |-> x, y |-> y, isDrawing |-> isDrawing])
      /\ Handled("cursor-move", c, r, TRUE)
      /\ UNCHANGED <<colorIndex, status, currentRoom, currentUser, inflightStrokes,
                     sioRooms, clientVars, nOps>>

Undo(c) ==
  LET r  == currentRoom[c]
      ok == r \in DOMAIN rooms /\ UndoResult(rooms[r]) # Null
  IN  /\ status[c] = "open"
      /\ ok => HasSpace(ToAll(r))
      /\ IF ok
         THEN /\ rooms' = [rooms EXCEPT ![r] = UndoRoom(@)]
              /\ Emit(ToAll(r), UndoResult(rooms[r]))
         ELSE UNCHANGED <<rooms, outbox>>
      /\ Handled("undo", c, r, ok)
      /\ UNCHANGED <<colorIndex, status, currentRoom, currentUser, inflightStrokes,
                     sioRooms, clientVars, nOps>>

GetStatsRequest(c) ==
  LET r == currentRoom[c]
  IN  /\ status[c] = "open"
      /\ HasSpace({c})
      /\ Emit({c}, [type |-> "stats", stats |-> GetRoomStats(rooms, r)])
      /\ Handled("get-stats", c, r, TRUE)
      /\ UNCHANGED <<rooms, colorIndex, status, currentRoom, currentUser,
                     inflightStrokes, sioRooms, clientVars, nOps>>

\* redo that answers the requester with an error when there is nothing to redo
RedoReportsFailure(c) ==
  LET r  == currentRoom[c]
      ok == r \in DOMAIN rooms /\ RedoResult(rooms[r]) # Null
  IN  /\ status[c] = "open"
      /\ HasSpace(IF ok THEN ToAll(r) ELSE {c})
      /\ IF ok
         THEN /\ rooms' = [rooms EXCEPT ![r] = RedoRoom(@)]
              /\ Emit(ToAll(r), RedoResult(rooms[r]))
         ELSE /\ UNCHANGED rooms
              /\ Emit({c}, [type |-> "error"])
      /\ Handled("redo", c, r, ok)
      /\ UNCHANGED <<colorIndex, status, currentRoom, currentUser, inflightStrokes,
                     sioRooms, clientVars, nOps>>

Redo(c) ==
  LET r  == currentRoom[c]
      ok == r \in DOMAIN rooms /\ RedoResult(rooms[r]) # Null
  IN  /\ status[c] = "open"
      /\ ok => HasSpace(ToAll(r))
      /\ IF ok
         THEN /\ rooms' = [rooms EXCEPT ![r] = RedoRoom(@)]
              /\ Emit(ToAll(r), RedoResult(rooms[r]))
         ELSE UNCHANGED <<rooms, outbox>>
      /\ Handled("redo", c, r, ok)
      /\ UNCHANGED <<colorIndex, status, currentRoom, currentUser, inflightStrokes,
                     sioRooms, clientVars, nOps>>

\* clear-canvas that clears every room of the registry
ClearCanvasEverywhere(c) ==
  LET r  == currentRoom[c]
      ok == r \in DOMAIN rooms
  IN  /\ status[c] = "open"
      /\ ok => HasSpace(ToAll(r))
      /\ IF ok
         THEN /\ rooms' = [q \in DOMAIN rooms |-> ClearRoom(rooms[q])]
              /\ Emit(ToAll(r), [type |-> "clear-canvas"])
         ELSE UNCHANGED <<rooms, outbox>>
      /\ Handled("clear-canvas", c, r, ok)
      /\ UNCHANGED <<colorIndex, status, currentRoom, currentUser, inflightStrokes,
                     sioRooms, clientVars, nOps>>

\* clear-canvas that also throws away the strokes being drawn in the room
ClearCanvasDropsStrokes(c) ==
  LET r  == currentRoom[c]
      ok == r \in DOMAIN rooms
  IN  /\ status[c] = "open"
      /\ ok => HasSpace(ToAll(r))
      /\ IF ok
         THEN /\ rooms' = [rooms EXCEPT ![r] = ClearRoom(@)]
              /\ Emit(ToAll(r), [type |-> "clear-canvas"])
              /\ inflightStrokes' = [t \in Conns |->
                                       IF currentRoom[t] = r THEN EmptyMap
                                       ELSE inflightStrokes[t]]
         ELSE UNCHANGED <<rooms, outbox, inflightStrokes>>
      /\ Handled("clear-canvas", c, r, ok)
      /\ UNCHANGED <<colorIndex, status, currentRoom, currentUser,
                     sioRooms, clientVars, nOps>>

ClearCanvas(c) ==
  LET r  == currentRoom[c]
      ok == r \in DOMAIN rooms
  IN  /\ status[c] = "open"
      /\ ok => HasSpace(ToAll(r))
      /\ IF ok
         THEN /\ rooms' = [rooms EXCEPT ![r] = ClearRoom(@)]
              /\ Emit(ToAll(r), [type |-> "clear-canvas"])
         ELSE UNCHANGED <<rooms, outbox>>
      /\ Handled("clear-canvas", c, r, ok)
      /\ UNCHANGED <<colorIndex, status, currentRoom, currentUser, inflightStrokes,
                     sioRooms, clientVars, nOps>>

\* disconnect that commits a stroke the socket had started and not ended
DisconnectCommitting(c) ==
  LET r       == currentRoom[c]
      leaves  == currentUser[c] # Null
      others  == {t \in Conns \ {c} : status[t] = "open" /\ r \in sioRooms[t]}
      flushes == inflightStrokes[c] # EmptyMap /\ r \in DOMAIN rooms
      sid     == CHOOSE k \in DOMAIN inflightStrokes[c] : TRUE
      flushed == IF flushes
                 THEN [rooms EXCEPT ![r] =
                         AddOperation(@, [type |-> "draw", userId |-> c,
                                          strokeId |-> sid,
                                          points |-> inflightStrokes[c][sid].points,
                                          style |-> inflightStrokes[c][sid].style],
                                      nOps + 1, nOps + 1)]
                 ELSE rooms
  IN  /\ status[c] = "open"
      /\ leaves => HasSpace(others)
      /\ status' = [status EXCEPT ![c] = "closed"]
      /\ sioRooms' = [sioRooms EXCEPT ![c] = {}]
      /\ inflightStrokes' = [inflightStrokes EXCEPT ![c] = EmptyMap]
      /\ rooms' = IF leaves THEN RemoveUserFromRoom(flushed, r, c) ELSE flushed
      /\ nOps' = IF flushes THEN nOps + 1 ELSE nOps
      /\ outbox' = [t \in Conns |->
                      IF t = c THEN <<>>
                      ELSE IF leaves /\ t \in others
                      THEN Append(outbox[t], [type |-> "user-left", userId |-> c,
                                              userName |-> currentUser[c].name])
                      ELSE outbox[t]]
      /\ last' = [ev |-> "disconnect", conn |-> c, room |-> r, ok |-> leaves,
                  pre |-> inflightStrokes[c], prevEv |-> ""]
      /\ UNCHANGED <<colorIndex, currentRoom, currentUser, clientVars>>

\* socket.io has already taken the socket out of its rooms when the
\* 'disconnect' handler runs; what was queued for the socket is lost
Disconnect(c) ==
  LET r      == currentRoom[c]
      leaves == currentUser[c] # Null
      others == {t \in Conns \ {c} : status[t] = "open" /\ r \in sioRooms[t]}
  IN  /\ status[c] = "open"
      /\ leaves => HasSpace(others)
      /\ status' = [status EXCEPT ![c] = "closed"]
      /\ sioRooms' = [sioRooms EXCEPT ![c] = {}]
      /\ inflightStrokes' = [inflightStrokes EXCEPT ![c] = EmptyMap]
      /\ rooms' = IF leaves THEN RemoveUserFromRoom(rooms, r, c) ELSE rooms
      /\ outbox' = [t \in Conns |->
                      IF t = c THEN <<>>
                      ELSE IF leaves /\ t \in others
                      THEN Append(outbox[t], [type |-> "user-left", userId |-> c,
                                              userName |-> currentUser[c].name])
                      ELSE outbox[t]]
      \* history: the buffers the socket held when it went
      /\ last' = [ev |-> "disconnect", conn |-> c, room |-> r, ok |-> leaves,
                  pre |-> inflightStrokes[c], prevEv |-> ""]
      /\ UNCHANGED <<colorIndex, currentRoom, currentUser, clientVars, nOps>>

----------------------------------------------------------------------------
(* Client: the socket listeners of WebSocketClient and the handlers          *)
(* CollaborativeCanvas registers on it.  The transport hands a socket's      *)
(* messages to its client one at a time, in the order they were emitted.     *)

Receives(c, type) ==
  /\ status[c] = "open"
  /\ outbox[c] # <<>>
  /\ Head(outbox[c]).type = type

Received(c) ==
  /\ outbox' = [outbox EXCEPT ![c] = Tail(@)]
  /\ UNCHANGED <<serverVars, nOps, last>>

\* users.set(user.id, user) for each user of the snapshot
MergeUsers(m, snapshot) ==
  [k \in DOMAIN m \cup DOMAIN snapshot |->
     IF k \in DOMAIN snapshot THEN snapshot[k] ELSE m[k]]

OnInitState(c) ==
  /\ Receives(c, "init-state")
  /\ LET data == Head(outbox[c])
     IN  /\ users' = [users EXCEPT ![c] = MergeUsers(@, data.users)]
         /\ operationHistory' = [operationHistory EXCEPT ![c] = data.operations]
         /\ currentIndex' = [currentIndex EXCEPT ![c] = Len(data.operations) - 1]
  /\ Received(c)
  /\ UNCHANGED remoteStrokes

OnDrawStart(c) ==
  /\ Receives(c, "draw:start")
  /\ LET m == Head(outbox[c])
     IN  remoteStrokes' = [remoteStrokes EXCEPT ![c] =
           MapSet(@, m.strokeId, [style |-> m.style, points |-> <<m.point>>])]
  /\ Received(c)
  /\ UNCHANGED <<operationHistory, currentIndex, users>>

OnDrawAppend(c) ==
  /\ Receives(c, "draw:append")
  /\ LET m == Head(outbox[c])
     IN  remoteStrokes' =
           IF m.strokeId \in DOMAIN remoteStrokes[c]
           THEN [remoteStrokes EXCEPT ![c][m.strokeId].points = @ \o m.points]
           ELSE remoteStrokes
  /\ Received(c)
  /\ UNCHANGED <<operationHistory, currentIndex, users>>

\* operationHistory.push(operation); currentIndex++
PushFinal(history, index, operation) ==
  [operationHistory |-> Append(history, operation), currentIndex |-> index + 1]

OnDrawFinal(c) ==
  /\ Receives(c, "draw:final")
  /\ LET operation == Head(outbox[c]).operation
         after     == PushFinal(operationHistory[c], currentIndex[c], operation)
     IN  /\ operationHistory' = [operationHistory EXCEPT ![c] = after.operationHistory]
         /\ currentIndex' = [currentIndex EXCEPT ![c] = after.currentIndex]
         /\ remoteStrokes' = [remoteStrokes EXCEPT ![c] =
                                MapDelete(@, operation.strokeId)]
  /\ Received(c)
  /\ UNCHANGED users

OnUserJoined(c) ==
  /\ Receives(c, "user-joined")
  /\ LET user == Head(outbox[c]).user
     IN  users' = [users EXCEPT ![c] = MapSet(@, user.id, user)]
  /\ Received(c)
  /\ UNCHANGED <<operationHistory, currentIndex, remoteStrokes>>

OnUserLeft(c) ==
  /\ Receives(c, "user-left")
  /\ users' = [users EXCEPT ![c] = MapDelete(@, Head(outbox[c]).userId)]
  /\ Received(c)
  /\ UNCHANGED <<operationHistory, currentIndex, remoteStrokes>>

\* the same body serves 'undo' and 'redo': currentIndex = data.currentIndex
OnUndo(c) ==
  /\ Receives(c, "undo")
  /\ currentIndex' = [currentIndex EXCEPT ![c] = Head(outbox[c]).currentIndex]
  /\ Received(c)
  /\ UNCHANGED <<operationHistory, users, remoteStrokes>>

OnRedo(c) ==
  /\ Receives(c, "redo")
  /\ currentIndex' = [currentIndex EXCEPT ![c] = Head(outbox[c]).currentIndex]
  /\ Received(c)
  /\ UNCHANGED <<operationHistory, users, remoteStrokes>>

OnClearCanvas(c) ==
  /\ Receives(c, "clear-canvas")
  /\ operationHistory' = [operationHistory EXCEPT ![c] = <<>>]
  /\ currentIndex' = [currentIndex EXCEPT ![c] = -1]
  /\ Received(c)
  /\ UNCHANGED <<users, remoteStrokes>>

\* what the client draws: operationHistory.slice(0, currentIndex + 1)
ClientVisible(c) == Slice(operationHistory[c], currentIndex[c] + 1)

----------------------------------------------------------------------------
(* Server and clients together *)

Batches == {<<p>> : p \in Points} \cup {<<>>}

UserNames == {""}

\* a message from some socket of `from`, with any payload of the input sets;
\* a draw:append carries one of `batches`, the stamp of a commit is one of
\* `stamps`
ServerStep(from, roomIds, batches, stamps) ==
  \/ \E c \in from, roomId \in roomIds, n \in UserNames :
        colorIndex < MaxJoins /\ JoinRoom(c, roomId, n)
  \/ \E c \in from, s \in StrokeIds, y \in Styles, p \in Points :
        DrawStart(c, s, y, p)
  \/ \E c \in from, s \in StrokeIds, b \in batches : DrawAppend(c, s, b)
  \/ \E c \in from, s \in StrokeIds, stamp \in stamps : DrawEnd(c, s, stamp)
  \/ \E c \in from : Undo(c)
  \/ \E c \in from : Redo(c)
  \/ \E c \in from : ClearCanvas(c)
  \/ \E c \in from : Disconnect(c)

ClientHistoryStep ==
  \/ \E c \in Conns : OnInitState(c)
  \/ \E c \in Conns : OnDrawStart(c)
  \/ \E c \in Conns : OnDrawFinal(c)
  \/ \E c \in Conns : OnUserJoined(c)
  \/ \E c \in Conns : OnUserLeft(c)
  \/ \E c \in Conns : OnUndo(c)
  \/ \E c \in Conns : OnRedo(c)
  \/ \E c \in Conns : OnClearCanvas(c)

ClientStep ==
  \/ ClientHistoryStep
  \/ \E c \in Conns : OnDrawAppend(c)

\* commits happen at distinct instants: the stamp is the commit's ordinal
Next ==
  \/ ServerStep(Conns, RoomIds \cup {NoRoomId}, Batches, {nOps + 1})
  \/ \E c \in Conns, x \in Coords, y \in Coords : CursorMove(c, x, y, TRUE)
  \/ ClientStep

Spec == Init /\ [][Next]_vars

----------------------------------------------------------------------------
(* Server and clients in one room: both sockets name the room 'default',     *)
(* strokes are committed as started (no draw:append in between).             *)

NextSync ==
  \/ \E c \in Conns : colorIndex < MaxJoins /\ JoinRoom(c, "default", "")
  \/ \E c \in Conns, s \in StrokeIds, y \in Styles, p \in Points :
        DrawStart(c, s, y, p)
  \/ \E c \in Conns, s \in StrokeIds : DrawEnd(c, s, nOps + 1)
  \/ \E c \in Conns : Undo(c)
  \/ \E c \in Conns : Redo(c)
  \/ \E c \in Conns : ClearCanvas(c)
  \/ \E c \in Conns : Disconnect(c)
  \/ ClientHistoryStep

SpecSync == Init /\ [][NextSync]_vars

----------------------------------------------------------------------------
(* The server with its clients hidden: the transport takes the oldest        *)
(* message of a socket off the wire, and what the client does with it is     *)
(* not looked at.  Every step of a client handler above is such a step on    *)
(* the server's variables and the outboxes, so what holds of them here       *)
(* holds with the clients present.                                           *)

Transmit(c) ==
  /\ status[c] = "open"
  /\ outbox[c] # <<>>
  /\ outbox' = [outbox EXCEPT ![c] = Tail(@)]
  /\ UNCHANGED <<serverVars, clientVars, nOps, last>>

\* two commits may draw the same (Date.now(), Math.random()) pair
NextServer ==
  \/ ServerStep(Conns, RoomIds \cup {NoRoomId}, {<<>>}, Stamps)
  \/ \E c \in Conns : Transmit(c)

SpecServer == Init /\ [][NextServer]_vars

----------------------------------------------------------------------------
(* One room with three participants: the sockets c1, c2 and c3 have each     *)
(* sent join-room for 'default', in that order, and the six messages that    *)
(* produced have left the outboxes.  From there c1 and c2 draw strokes and   *)
(* all three send draw:end, undo, redo and clear-canvas in any order; none   *)
(* joins again or leaves.  The clients are hidden as in SpecServer.          *)

JoinedRooms ==
  AddUserToRoom(
    AddUserToRoom(
      AddUserToRoom(EmptyMap, "default", "c1", "", 0),
      "default", "c2", "", 1),
    "default", "c3", "", 2)

InitRoom ==
  /\ rooms = JoinedRooms
  /\ colorIndex = 3
  /\ status = [c \in Conns |-> "open"]
  /\ currentRoom = [c \in Conns |-> "default"]
  /\ currentUser = [c \in Conns |-> JoinedRooms["default"].users[c]]
  /\ inflightStrokes = [c \in Conns |-> EmptyMap]
  /\ sioRooms = [c \in Conns |-> {"default"}]
  /\ outbox = [c \in Conns |-> <<>>]
  /\ operationHistory = [c \in Conns |-> <<>>]
  /\ currentIndex = [c \in Conns |-> -1]
  /\ users = [c \in Conns |-> EmptyMap]
  /\ remoteStrokes = [c \in Conns |-> EmptyMap]
  /\ nOps = 0
  /\ last = NoCall

Authors == {"c1", "c2"}

NextRoom ==
  \/ \E c \in Authors, s \in StrokeIds, y \in Styles, p \in Points :
        DrawStart(c, s, y, p)
  \/ \E c \in Conns, s \in StrokeIds : DrawEnd(c, s, nOps + 1)
  \/ \E c \in Conns : Undo(c)
  \/ \E c \in Conns : Redo(c)
  \/ \E c \in Conns : ClearCanvas(c)
  \/ \E c \in Conns : Transmit(c)

SpecRoom == InitRoom /\ [][NextRoom]_vars

----------------------------------------------------------------------------
(* Live strokes and cursors: c1 and c2 have joined 'default' and the four    *)
(* messages that produced have left the outboxes; c3 is connected and has    *)
(* not sent join-room.  The clients are hidden as in SpecServer.             *)

JoinedPair ==
  AddUserToRoom(AddUserToRoom(EmptyMap, "default", "c1", "", 0),
                "default", "c2", "", 1)

InitStroke ==
  /\ rooms = JoinedPair
  /\ colorIndex = 2
  /\ status = [c \in Conns |-> "open"]
  /\ currentRoom = [c \in Conns |-> "default"]
  /\ currentUser = [c \in Conns |->
                      IF c = "c3" THEN Null ELSE JoinedPair["default"].users[c]]
  /\ inflightStrokes = [c \in Conns |-> EmptyMap]
  /\ sioRooms = [c \in Conns |-> IF c = "c3" THEN {} ELSE {"default"}]
  /\ outbox = [c \in Conns |-> <<>>]
  /\ operationHistory = [c \in Conns |-> <<>>]
  /\ currentIndex = [c \in Conns |-> -1]
  /\ users = [c \in Conns |-> EmptyMap]
  /\ remoteStrokes = [c \in Conns |-> EmptyMap]
  /\ nOps = 0
  /\ last = NoCall

\* c1 is the participant who draws, moves its cursor and may leave; c2 is
\* the participant who watches; c3 starts and ends strokes without having
\* joined, and may leave
Drawer == {"c1"}

Outsider == {"c3"}

NextStroke ==
  \/ \E c \in Drawer \cup Outsider, s \in StrokeIds, y \in Styles, p \in Points :
        DrawStart(c, s, y, p)
  \/ \E c \in Drawer, s \in StrokeIds, b \in Batches : DrawAppend(c, s, b)
  \/ \E c \in Drawer \cup Outsider, s \in StrokeIds : DrawEnd(c, s, nOps + 1)
  \/ \E c \in Drawer, x \in Coords, y \in Coords : CursorMove(c, x, y, TRUE)
  \/ \E c \in Drawer \cup Outsider : Disconnect(c)
  \/ \E c \in Conns : Transmit(c)

SpecStroke == InitStroke /\ [][NextStroke]_vars

----------------------------------------------------------------------------
(* Incomplete payloads: c1 and c2 have joined "default"; c1 sends stroke     *)
(* events whose strokeId or point field may be missing.                       *)

Sender == {"c1"}

NextMalformed ==
  \/ \E c \in Sender, s \in StrokeIds \cup {NoStrokeId}, y \in Styles,
          p \in Points \cup {NoPoint} :
        DrawStart(c, s, y, p)
  \/ \E c \in Sender, s \in StrokeIds \cup {NoStrokeId}, b \in Batches :
        DrawAppend(c, s, b)
  \/ \E c \in Sender, s \in StrokeIds \cup {NoStrokeId} : DrawEnd(c, s, nOps + 1)
  \/ \E c \in Conns : Transmit(c)

SpecMalformed == InitStroke /\ [][NextMalformed]_vars

----------------------------------------------------------------------------
(* Concurrent streams: c1 and c2 have joined "default" and stream strokes at *)
(* the same time, c1 under two stroke ids and c2 under one of them; c1 ends  *)
(* stroke s1, again and again, while the other two streams stay open.  Every *)
(* point tells which connection sent it, for which stroke id, and whether    *)
(* in the draw:start or in a draw:append.                                     *)

Streamers == {"c1", "c2"}

StreamIds(c) == IF c = "c1" THEN {"s1", "s2"} ELSE {"s1"}

StreamCode(c, s) ==
  (IF c = "c1" THEN 0 ELSE 4) + (IF s = "s1" THEN 0 ELSE 2)

FirstPoint(c, s) == StreamCode(c, s) + 1

NextPoint(c, s) == StreamCode(c, s) + 2

NextStreams ==
  \/ \E c \in Streamers, y \in Styles : \E s \in StreamIds(c) :
        DrawStart(c, s, y, FirstPoint(c, s))
  \/ \E c \in Streamers : \E s \in StreamIds(c) :
        DrawAppend(c, s, <<NextPoint(c, s)>>)
  \/ \E c \in Drawer, s \in StrokeIds : DrawEnd(c, s, nOps + 1)
  \/ \E c \in Conns : Transmit(c)

SpecStreams == InitStroke /\ [][NextStreams]_vars

----------------------------------------------------------------------------
(* Remote strokes: c1 and c2 have joined "default"; c1 draws and may leave,  *)
(* and the clients take in what the server sends them.  A message that has   *)
(* arrived at a client is handled: the listeners run as soon as the event    *)
(* loop of the page is free.  Nothing obliges a user to end a stroke.        *)

Deliver ==
  \/ \E c \in Conns : OnDrawStart(c)
  \/ \E c \in Conns : OnDrawAppend(c)
  \/ \E c \in Conns : OnDrawFinal(c)
  \/ \E c \in Conns : OnUserLeft(c)

NextRemote ==
  \/ \E c \in Drawer, s \in StrokeIds, y \in Styles, p \in Points :
        DrawStart(c, s, y, p)
  \/ \E c \in Drawer, s \in StrokeIds, b \in Batches : DrawAppend(c, s, b)
  \/ \E c \in Drawer, s \in StrokeIds : DrawEnd(c, s, nOps + 1)
  \/ \E c \in Drawer : Disconnect(c)
  \/ Deliver

SpecRemote == InitStroke /\ [][NextRemote]_vars /\ WF_vars(Deliver)

----------------------------------------------------------------------------
(* User lists: c1 and c2 have joined "default" and have received every       *)
(* message sent to them.  They join rooms again and leave, with their         *)
(* clients taking the messages in.                                            *)

InitUsers ==
  /\ rooms = JoinedPair
  /\ colorIndex = 2
  /\ status = [c \in Conns |-> IF c = "c3" THEN "closed" ELSE "open"]
  /\ currentRoom = [c \in Conns |-> "default"]
  /\ currentUser = [c \in Conns |->
                      IF c = "c3" THEN Null ELSE JoinedPair["default"].users[c]]
  /\ inflightStrokes = [c \in Conns |-> EmptyMap]
  /\ sioRooms = [c \in Conns |-> IF c = "c3" THEN {} ELSE {"default"}]
  /\ outbox = [c \in Conns |-> <<>>]
  /\ operationHistory = [c \in Conns |-> <<>>]
  /\ currentIndex = [c \in Conns |-> -1]
  /\ users = [c \in Conns |->
                IF c = "c3" THEN EmptyMap ELSE JoinedPair["default"].users]
  /\ remoteStrokes = [c \in Conns |-> EmptyMap]
  /\ nOps = 0
  /\ last = NoCall

NextUsers ==
  \/ \E c \in Conns, roomId \in RoomIds :
        /\ colorIndex < Cardinality(DOMAIN JoinedPair["default"].users) + MaxJoins
        /\ JoinRoom(c, roomId, "")
  \/ \E c \in Conns : Disconnect(c)
  \/ \E c \in Conns : OnInitState(c)
  \/ \E c \in Conns : OnUserJoined(c)
  \/ \E c \in Conns : OnUserLeft(c)

SpecUsers == InitUsers /\ [][NextUsers]_vars

----------------------------------------------------------------------------
(* Rooms: c1 and c2 are connected and no room exists.  They join rooms,     *)
(* join again, commit strokes, undo, redo, clear and leave.  The clients     *)
(* are hidden as in SpecServer.                                              *)

\* c1 is the socket that edits; both join and leave
Editor == {"c1"}

NextRooms ==
  \/ \E c \in Conns, roomId \in RoomIds \cup {NoRoomId} :
        colorIndex < MaxJoins /\ JoinRoom(c, roomId, "")
  \/ \E c \in Editor, s \in StrokeIds, y \in Styles, p \in Points :
        DrawStart(c, s, y, p)
  \/ \E c \in Editor, s \in StrokeIds : DrawEnd(c, s, nOps + 1)
  \/ \E c \in Editor : Undo(c)
  \/ \E c \in Conns : Disconnect(c)
  \/ \E c \in Conns : Transmit(c)

SpecRooms == Init /\ [][NextRooms]_vars

----------------------------------------------------------------------------
(* Statistics: c1 and c2 are connected and no room exists.  c1 joins rooms,  *)
(* commits strokes, undoes and asks for statistics; c2 may join "default"    *)
(* and may leave.                                                             *)

Leaver == {"c2"}

NextStats ==
  \/ \E c \in Editor, roomId \in RoomIds :
        colorIndex < MaxJoins /\ JoinRoom(c, roomId, "")
  \/ \E c \in Leaver : colorIndex < MaxJoins /\ JoinRoom(c, DriverRoom, "")
  \/ \E c \in Editor, s \in StrokeIds, y \in Styles, p \in Points :
        DrawStart(c, s, y, p)
  \/ \E c \in Editor, s \in StrokeIds : DrawEnd(c, s, nOps + 1)
  \/ \E c \in Editor : Undo(c)
  \/ \E c \in Editor : GetStatsRequest(c)
  \/ \E c \in Leaver : Disconnect(c)
  \/ \E c \in Conns : Transmit(c)

SpecStats == Init /\ [][NextStats]_vars

----------------------------------------------------------------------------
(* Two rooms: c1 has sent join-room for 'default', c2 has sent join-room    *)
(* for 'default', c1 has then sent join-room for 'r1', and the messages      *)
(* that produced have left the outboxes; c3 is not connected.  From there    *)
(* c1 edits 'r1' and c2 edits 'default'.  The clients are hidden as in       *)
(* SpecServer.                                                               *)

TwoRooms ==
  AddUserToRoom(
    AddUserToRoom(
      AddUserToRoom(EmptyMap, "default", "c1", "", 0),
      "default", "c2", "", 1),
    "r1", "c1", "", 2)

InitTwoRooms ==
  /\ rooms = TwoRooms
  /\ colorIndex = 3
  /\ status = [c \in Conns |-> IF c = "c3" THEN "closed" ELSE "open"]
  /\ currentRoom = [c \in Conns |-> IF c = "c1" THEN "r1" ELSE "default"]
  /\ currentUser = [c \in Conns |->
                      IF c = "c1" THEN UserData("c1", "", 2)
                      ELSE IF c = "c2" THEN UserData("c2", "", 1)
                      ELSE Null]
  /\ inflightStrokes = [c \in Conns |-> EmptyMap]
  /\ sioRooms = [c \in Conns |->
                   IF c = "c1" THEN {"default", "r1"}
                   ELSE IF c = "c2" THEN {"default"}
                   ELSE {}]
  /\ outbox = [c \in Conns |-> <<>>]
  /\ operationHistory = [c \in Conns |-> <<>>]
  /\ currentIndex = [c \in Conns |-> -1]
  /\ users = [c \in Conns |-> EmptyMap]
  /\ remoteStrokes = [c \in Conns |-> EmptyMap]
  /\ nOps = 0
  /\ last = NoCall

NextTwoRooms ==
  \/ \E c \in Conns, s \in StrokeIds, y \in Styles, p \in Points :
        DrawStart(c, s, y, p)
  \/ \E c \in Conns, s \in StrokeIds : DrawEnd(c, s, nOps + 1)
  \/ \E c \in Conns : Undo(c)
  \/ \E c \in Conns : Redo(c)
  \/ \E c \in Conns : ClearCanvas(c)
  \/ \E c \in Conns : Transmit(c)

SpecTwoRooms == InitTwoRooms /\ [][NextTwoRooms]_vars

----------------------------------------------------------------------------
(* Claims about DrawingStateManager, checked under SpecState *)

D == rooms[DriverRoom]

Seqs(ops) == {ops[i].seq : i \in 1..Len(ops)}

Range(s) == {s[i] : i \in 1..Len(s)}

\* C1: in every reachable state the history pointer of every room satisfies
\* -1 <= currentIndex <= operations.length - 1.
C1_PointerInBounds ==
  \A r \in DOMAIN rooms :
    /\ -1 <= rooms[r].currentIndex
    /\ rooms[r].currentIndex <= Len(rooms[r].operations) - 1

\* an undo has just moved the pointer strictly inside a log of four
C1_Witness ==
  /\ last.ev = "undo" /\ last.ok
  /\ Len(D.operations) = 4 /\ D.currentIndex = 1

\* C2: addOperation on log L with pointer p yields L[0..p] followed by exactly
\* the new operation, the pointer on the new last index, and none of the
\* operations that were at an index > p.
C2_AppendTruncates ==
  [][nOps' # nOps =>
       LET L  == D.operations
           p  == D.currentIndex
           L2 == D'.operations
       IN  /\ Len(L2) = p + 2
           /\ SubSeq(L2, 1, p + 1) = SubSeq(L, 1, p + 1)
           /\ L2[p + 2].seq = nOps'
           /\ L2[p + 2].userId \in DriverAuthors
           /\ D'.currentIndex = Len(L2) - 1
           /\ \A i \in (p + 2)..Len(L) : L[i] \notin Range(L2)]_vars

\* the example of the claim: [A,B,C,D] with pointer 1, append E gives [A,B,E]
\* with pointer 2
C2_Witness ==
  /\ last.ev = "addOperation"
  /\ Len(last.pre.operations) = 4 /\ last.pre.currentIndex = 1
  /\ Seqs(last.pre.operations) = {1, 2, 3, 4}
  /\ [i \in 1..Len(D.operations) |-> D.operations[i].seq] = <<1, 2, 5>>
  /\ D.currentIndex = 2

\* C3: where undo succeeds, undo immediately followed by redo leaves the same
\* getCurrentState(), the same log and the same pointer as before the undo.
C3_UndoRedoRestores ==
  [][(last.ev = "undo" /\ last.ok /\ last'.ev = "redo") =>
       /\ last'.ok
       /\ D'.operations = last.pre.operations
       /\ D'.currentIndex = last.pre.currentIndex
       /\ GetCurrentState(D') = GetCurrentState(last.pre)]_vars

\* a redo has just followed a successful undo taken in the middle of the log
C3_Witness ==
  /\ last.ev = "redo" /\ last.prevEv = "undo" /\ last.ok
  /\ Len(D.operations) = 4 /\ D.currentIndex = 1
  /\ last.pre.currentIndex = 0

\* C4: an operation discarded from the log (committed earlier, no longer
\* stored) never again appears in the log or in getCurrentState(), and redo
\* immediately after any append returns null.
C4_DiscardedStaysGone ==
  [][
      /\ \A k \in 1..nOps :
           k \notin Seqs(D.operations) =>
             /\ k \notin Seqs(D'.operations)
             /\ k \notin Seqs(GetCurrentState(D'))
      /\ (nOps' # nOps => RedoResult(D') = Null)
      /\ (last.ev = "addOperation" /\ last'.ev = "redo") =>
            (~last'.ok /\ D' = D)
    ]_vars

\* op2 was discarded by a draw after undo and the redo that followed the
\* append returned null
C4_Witness ==
  /\ last.ev = "redo" /\ last.prevEv = "addOperation" /\ ~last.ok
  /\ [i \in 1..Len(D.operations) |-> D.operations[i].seq] = <<1, 3>>
  /\ nOps = 3

IsCleared(room) ==
  /\ room.operations = <<>>
  /\ room.currentIndex = -1
  /\ GetCurrentState(room) = <<>>

\* C5: after clear() the log and getCurrentState() are empty and the pointer
\* is -1, and undo() and redo() return null until an operation is appended.
C5_ClearIsFinal ==
  [][
      /\ (last'.ev = "clear" => IsCleared(D'))
      /\ (IsCleared(D) /\ nOps' = nOps) =>
            /\ IsCleared(D')
            /\ (last'.ev \in {"undo", "redo"} => ~last'.ok)
    ]_vars

\* clear has just emptied a room that held visible and hidden operations
C5_Witness ==
  /\ last.ev = "clear"
  /\ Len(last.pre.operations) = 3 /\ last.pre.currentIndex = 0
  /\ IsCleared(D)

----------------------------------------------------------------------------
(* Claims about what clients display, checked under SpecSync *)

\* a client that has joined, is still connected and has handled every
\* message the server sent it
Settled(c) ==
  /\ status[c] = "open"
  /\ currentUser[c] # Null
  /\ outbox[c] = <<>>

\* C6: once a client that stays joined to a room has handled every broadcast
\* the server emitted to it, the visible history it displays (its log up to
\* and including its pointer) equals the server's getCurrentState() of that
\* room.
C6_ClientMatchesServer ==
  \A c \in Conns :
    Settled(c) =>
      /\ currentRoom[c] \in DOMAIN rooms
      /\ ClientVisible(c) = GetCurrentState(rooms[currentRoom[c]])

\* C7: after a successful redo, the operation it restored is in the visible
\* history of every client joined to the room that has handled the redo
\* broadcast, a client whose only state transfer was its join snapshot
\* included.
C7_RedoneVisibleEverywhere ==
  \A c \in Conns :
    ( /\ last.ev = "redo"
      /\ last.ok
      /\ Settled(c)
      /\ currentRoom[c] = last.room )
    => LET room == rooms[last.room]
       IN  At(room.operations, room.currentIndex) \in Range(ClientVisible(c))

----------------------------------------------------------------------------
(* Claims about one room and its participants, checked under SpecRoom *)

HistoryTypes == {"draw:final", "undo", "redo", "clear-canvas"}

\* the step put exactly one message at the tail of t's queue
Grown(t) ==
  /\ Len(outbox'[t]) = Len(outbox[t]) + 1
  /\ SubSeq(outbox'[t], 1, Len(outbox[t])) = outbox[t]

Newest(t) == outbox'[t][Len(outbox'[t])]

\* message m reports the one history operation that leads from before to after
Reports(m, before, after) ==
  \/ /\ m.type = "draw:final"
     /\ after.operations =
          Append(Slice(before.operations, before.currentIndex + 1), m.operation)
     /\ after.currentIndex = Len(after.operations) - 1
  \/ /\ m.type = "undo"
     /\ before.currentIndex >= 0
     /\ after.operations = before.operations
     /\ after.currentIndex = before.currentIndex - 1
     /\ m.currentIndex = after.currentIndex
     /\ m.operation = At(before.operations, before.currentIndex)
  \/ /\ m.type = "redo"
     /\ before.currentIndex < Len(before.operations) - 1
     /\ after.operations = before.operations
     /\ after.currentIndex = before.currentIndex + 1
     /\ m.currentIndex = after.currentIndex
     /\ m.operation = At(before.operations, after.currentIndex)
  \/ /\ m.type = "clear-canvas"
     /\ after.operations = <<>>
     /\ after.currentIndex = -1

HistoryChanged(r) ==
  \/ rooms'[r].operations # rooms[r].operations
  \/ rooms'[r].currentIndex # rooms[r].currentIndex

C9_UndoIsGlobal ==
  [][
    \A c \in Conns :
      LET room == rooms[currentRoom[c]]
      IN  /\ Undo(c) =>
               IF room.currentIndex >= 0
               THEN /\ last'.ok
                    /\ rooms'[currentRoom[c]].operations = room.operations
                    /\ rooms'[currentRoom[c]].currentIndex = room.currentIndex - 1
                    /\ GetCurrentState(rooms'[currentRoom[c]]) =
                         Slice(room.operations, room.currentIndex)
               ELSE ~last'.ok /\ UNCHANGED <<rooms, outbox>>
          /\ Redo(c) =>
               IF room.currentIndex < Len(room.operations) - 1
               THEN /\ last'.ok
                    /\ rooms'[currentRoom[c]].operations = room.operations
                    /\ rooms'[currentRoom[c]].currentIndex = room.currentIndex + 1
                    /\ GetCurrentState(rooms'[currentRoom[c]]) =
                         Slice(room.operations, room.currentIndex + 2)
               ELSE ~last'.ok /\ UNCHANGED <<rooms, outbox>>
  ]_vars

\* c1 and c2 have each committed a stroke and c3, who authored neither, has
\* undone both
C9_Witness ==
  /\ last.ev = "undo"
  /\ last.conn = "c3"
  /\ last.ok
  /\ Len(rooms["default"].operations) = 2
  /\ rooms["default"].operations[1].userId = "c1"
  /\ rooms["default"].operations[2].userId = "c2"
  /\ rooms["default"].currentIndex = -1

\* C11: an undo issued when the pointer is -1, or a redo issued when the
\* pointer is at the last log index, leaves the room's log, pointer and
\* participants (and all other server state) unchanged and puts no message
\* in any connection's queue, the requester's included.
C11_FailedUndoRedoSilent ==
  [][
    \A c \in Conns :
      LET room == rooms[currentRoom[c]]
      IN  ( \/ Undo(c) /\ room.currentIndex = -1
            \/ Redo(c) /\ room.currentIndex = Len(room.operations) - 1 )
          => UNCHANGED <<serverVars, outbox, nOps>>
  ]_vars

\* c3 asked for a redo with the pointer on the last of two operations: the
\* request failed and no queue holds a message
C11_Witness ==
  /\ last.ev = "redo"
  /\ last.conn = "c3"
  /\ ~last.ok
  /\ Len(rooms["default"].operations) = 2
  /\ rooms["default"].currentIndex = 1
  /\ \A t \in Conns : outbox[t] = <<>>

----------------------------------------------------------------------------
(* Claims about live strokes and cursors, checked under SpecStroke *)

\* the participants of room r: the keys of its users map
Participants(r) == IF r \in DOMAIN rooms THEN DOMAIN rooms[r].users ELSE {}

\* the operation a draw:end of stroke s on socket c has to commit
Committed(c, s, op) ==
  /\ op.type = "draw"
  /\ op.userId = c
  /\ op.strokeId = s
  /\ op.points = inflightStrokes[c][s].points
  /\ op.style = inflightStrokes[c][s].style

\* C12: a draw:end for a stroke id whose buffer exists on that connection
\* always commits the accumulated style and points as one draw operation in
\* the connection's room, destroys the buffer, and sends the committed
\* operation to all participants of the room, the sender included.
C12_EndCommitsAndTellsAll ==
  [][
    \A c \in Conns, s \in StrokeIds :
      (DrawEnd(c, s, nOps + 1) /\ s \in DOMAIN inflightStrokes[c]) =>
        LET r == currentRoom[c]
        IN  /\ r \in DOMAIN rooms /\ r \in DOMAIN rooms'
            /\ Len(rooms'[r].operations) > 0
            /\ LET op == rooms'[r].operations[Len(rooms'[r].operations)]
               IN  /\ Committed(c, s, op)
                   /\ rooms'[r].currentIndex = Len(rooms'[r].operations) - 1
                   /\ \A t \in Participants(r) \cup {c} :
                        /\ Grown(t)
                        /\ Newest(t) = [type |-> "draw:final", operation |-> op]
            /\ s \notin DOMAIN inflightStrokes'[c]
  ]_vars

\* a draw:final message for an operation authored by c
FinalOf(m, c) == m.type = "draw:final" /\ m.operation.userId = c

OpsOf(rs, c) ==
  {op \in UNION {Range(rs[r].operations) : r \in DOMAIN rs} : op.userId = c}

\* C13: when a connection disconnects with strokes started and not ended,
\* the disconnect commits nothing: the log and pointer of every room that
\* remains are unchanged, the buffers are gone, and from then on no
\* operation of that connection is added to any log and no draw:final for
\* one is queued.
C13_AbandonedNeverCommitted ==
  [][
    \A c \in Conns :
      /\ Disconnect(c) =>
           /\ \A r \in DOMAIN rooms' :
                /\ r \in DOMAIN rooms
                /\ rooms'[r].operations = rooms[r].operations
                /\ rooms'[r].currentIndex = rooms[r].currentIndex
           /\ nOps' = nOps
           /\ inflightStrokes'[c] = EmptyMap
           /\ \A t \in Conns : ~(Grown(t) /\ Newest(t).type = "draw:final")
      /\ status[c] = "closed" =>
           /\ status'[c] = "closed"
           /\ inflightStrokes'[c] = EmptyMap
           /\ OpsOf(rooms', c) \subseteq OpsOf(rooms, c)
           /\ \A t \in Conns : ~(Grown(t) /\ FinalOf(Newest(t), c))
  ]_vars

\* c1 has left with stroke s1 started, appended to and not ended; nothing
\* was committed
C13_Witness ==
  /\ status["c1"] = "closed"
  /\ last.ev = "disconnect"
  /\ last.conn = "c1"
  /\ "s1" \in DOMAIN last.pre
  /\ Len(last.pre["s1"].points) = 2
  /\ "default" \in DOMAIN rooms
  /\ rooms["default"].operations = <<>>
  /\ nOps = 0

\* C14: a draw:append or draw:end naming a stroke id with no buffer on that
\* connection changes no buffer, no room and no pointer, and queues no
\* message.
C14_UnknownStrokeIgnored ==
  [][
    \A c \in Conns, s \in StrokeIds :
      ( /\ s \notin DOMAIN inflightStrokes[c]
        /\ \/ \E b \in Batches : DrawAppend(c, s, b)
           \/ DrawEnd(c, s, nOps + 1) )
      => UNCHANGED <<serverVars, outbox, nOps>>
  ]_vars

\* c3 sent draw:end for s1 while only c1 holds a buffer of that name: nothing
\* was committed and no queue holds a message
C14_Witness ==
  /\ last.ev = "draw:end"
  /\ last.conn = "c3"
  /\ ~last.ok
  /\ "s1" \in DOMAIN inflightStrokes["c1"]
  /\ inflightStrokes["c3"] = EmptyMap
  /\ rooms["default"].operations = <<>>
  /\ \A t \in Conns : outbox[t] = <<>>

\* the step queued one message of the given type for every other participant
\* of c's room and none for c itself
ToOthersOnly(c, type) ==
  /\ \A t \in Participants(currentRoom[c]) \ {c} :
       Grown(t) /\ Newest(t).type = type
  /\ outbox'[c] = outbox[c]

\* C15: draw:start, draw:append and cursor-move are delivered to every other
\* participant of the sender's room and never to the sender itself, whereas
\* draw:final is delivered to the sender as well.
C15_LiveToOthersFinalToAll ==
  [][
    \A c \in Conns :
      /\ (\E s \in StrokeIds, y \in Styles, p \in Points : DrawStart(c, s, y, p))
           => ToOthersOnly(c, "draw:start")
      /\ (\E s \in StrokeIds, b \in Batches : DrawAppend(c, s, b) /\ last'.ok)
           => ToOthersOnly(c, "draw:append")
      /\ (\E x \in Coords, y \in Coords : CursorMove(c, x, y, TRUE))
           => ToOthersOnly(c, "cursor-move")
      /\ (\E s \in StrokeIds : DrawEnd(c, s, nOps + 1) /\ last'.ok)
           => /\ Grown(c) /\ Newest(c).type = "draw:final"
              /\ \A t \in Participants(currentRoom[c]) :
                   Grown(t) /\ Newest(t).type = "draw:final"
  ]_vars

\* registry `after` differs from `before` at most in the cursor and isDrawing
\* fields of user u of room r, which are the given ones; it does not differ
\* at all when the room or the user is unknown
CursorFrame(before, after, r, u, cursor, isDrawing) ==
  IF r \in DOMAIN before /\ u \in DOMAIN before[r].users
  THEN /\ DOMAIN after = DOMAIN before
       /\ \A q \in DOMAIN before \ {r} : after[q] = before[q]
       /\ after[r].operations = before[r].operations
       /\ after[r].currentIndex = before[r].currentIndex
       /\ DOMAIN after[r].users = DOMAIN before[r].users
       /\ \A t \in DOMAIN before[r].users \ {u} :
            after[r].users[t] = before[r].users[t]
       /\ after[r].users[u].cursor = cursor
       /\ after[r].users[u].isDrawing = isDrawing
       /\ after[r].users[u].id = before[r].users[u].id
       /\ after[r].users[u].name = before[r].users[u].name
       /\ after[r].users[u].color = before[r].users[u].color
  ELSE after = before

\* C24: updateUserCursor changes only the cursor and isDrawing fields of the
\* named participant in the named room and never the room's log, pointer or
\* other participants; when the room or the participant is unknown it
\* changes nothing at all.  Stated of every cursor-move the server handles
\* and of the function applied to every registry the server reaches.
C24_CursorUpdateFrame ==
  [][
    /\ \A c \in Conns, x \in Coords, y \in Coords :
         CursorMove(c, x, y, TRUE) =>
           CursorFrame(rooms, rooms', currentRoom[c], c, <<x, y>>, TRUE)
    /\ \A r \in RoomIds, u \in Conns, x \in Coords, d \in BOOLEAN :
         CursorFrame(rooms', UpdateUserCursor(rooms', r, u, <<x, x>>, d),
                     r, u, <<x, x>>, d)
  ]_vars

\* c1 moved its cursor in a room that holds a committed stroke and another
\* participant
C24_Witness ==
  /\ last.ev = "cursor-move"
  /\ last.conn = "c1"
  /\ "default" \in DOMAIN rooms
  /\ DOMAIN rooms["default"].users = {"c1", "c2"}
  /\ rooms["default"].users["c1"].cursor = <<1, 1>>
  /\ rooms["default"].users["c1"].isDrawing
  /\ rooms["default"].users["c2"].cursor = <<0, 0>>
  /\ Len(rooms["default"].operations) = 1

----------------------------------------------------------------------------
(* Claims about joining and leaving rooms, checked under SpecRooms *)

\* the participants of room r in the next state
ParticipantsAfter(r) == IF r \in DOMAIN rooms' THEN DOMAIN rooms'[r].users ELSE {}

\* C16: on join, the joining connection receives one init-state whose
\* participant list is the room's participant map at that moment, the joiner
\* included, and whose operations are the log's entries 0..pointer and no
\* hidden one; every other connected participant receives one user-joined
\* naming the joiner, and nobody else receives a snapshot.
C16_JoinSnapshot ==
  [][
    \A c \in Conns, roomId \in RoomIds \cup {NoRoomId} :
      JoinRoom(c, roomId, "") =>
        LET r == IF roomId = NoRoomId THEN "default" ELSE roomId
        IN  /\ r \in DOMAIN rooms'
            /\ ParticipantsAfter(r) = Participants(r) \cup {c}
            /\ r \in DOMAIN rooms =>
                 /\ rooms'[r].operations = rooms[r].operations
                 /\ rooms'[r].currentIndex = rooms[r].currentIndex
            /\ Grown(c)
            /\ Newest(c).type = "init-state"
            /\ Newest(c).users = rooms'[r].users
            /\ c \in DOMAIN Newest(c).users
            /\ Newest(c).operations =
                 SubSeq(rooms'[r].operations, 1, rooms'[r].currentIndex + 1)
            /\ \A t \in ParticipantsAfter(r) \ {c} :
                 status[t] = "open" =>
                   /\ Grown(t)
                   /\ Newest(t).type = "user-joined"
                   /\ Newest(t).user.id = c
            /\ \A t \in Conns \ {c} :
                 ~(Grown(t) /\ Newest(t).type = "init-state")
  ]_vars

\* c2 joined the room in which c1 had committed a stroke and undone it: its
\* snapshot lists both participants and no operation, and c1 is told
C16_Witness ==
  /\ last.ev = "join-room"
  /\ last.conn = "c2"
  /\ Len(rooms[last.room].operations) = 1
  /\ rooms[last.room].currentIndex = -1
  /\ Len(outbox["c2"]) = 1
  /\ outbox["c2"][1].type = "init-state"
  /\ outbox["c2"][1].operations = <<>>
  /\ DOMAIN outbox["c2"][1].users = {"c1", "c2"}
  /\ Len(outbox["c1"]) = 1
  /\ outbox["c1"][1].type = "user-joined"

RoomsOf(c) == {r \in DOMAIN rooms : c \in DOMAIN rooms[r].users}

\* C19: at every moment each connection identity appears in the participant
\* map of at most one room.
C19_OneRoomPerConnection ==
  \A c \in Conns : Cardinality(RoomsOf(c)) <= 1

\* C20: after every handler every room of the registry has at least one
\* participant, and when the only participant of a room leaves, the registry
\* has no entry for that room id.
C20_NoEmptyRoom ==
  [][
    /\ \A r \in DOMAIN rooms' : DOMAIN rooms'[r].users # {}
    /\ \A c \in Conns :
         ( /\ Disconnect(c)
           /\ currentUser[c] # Null
           /\ Participants(currentRoom[c]) = {c} )
         => currentRoom[c] \notin DOMAIN rooms'
  ]_vars

\* c1 joined a room and left it: the registry is empty again
C20_Witness ==
  /\ last.ev = "disconnect"
  /\ last.conn = "c1"
  /\ last.ok
  /\ colorIndex = 1
  /\ DOMAIN rooms = {}

\* C21: after a connection disconnects, no room's participant map contains
\* its identity; consequently once every connection has disconnected the
\* registry contains no room.
C21_GoneAfterDisconnect ==
  /\ \A c \in Conns : (status[c] = "closed") => (RoomsOf(c) = {})
  /\ (\A c \in Conns : status[c] = "closed") => (DOMAIN rooms = {})

\* the participants of room r whose sockets are connected
Connected(r) == {t \in Participants(r) : status[t] = "open"}

\* C22: when the last participant of a room leaves, the room's history is
\* lost: the room is gone from the registry, the next connection to join the
\* same room id receives a snapshot with an empty operation list, and undo
\* and redo in the re-created room return null.
C22_HistoryLostWithLastParticipant ==
  [][
    /\ \A c \in Conns :
         Disconnect(c) =>
           \A r \in DOMAIN rooms :
             (Connected(r) = {c}) => (r \notin DOMAIN rooms')
    /\ \A c \in Conns, roomId \in RoomIds \cup {NoRoomId} :
         LET r == IF roomId = NoRoomId THEN "default" ELSE roomId
         IN  (JoinRoom(c, roomId, "") /\ Connected(r) = {}) =>
               /\ Newest(c).type = "init-state"
               /\ Newest(c).operations = <<>>
               /\ UndoResult(rooms'[r]) = Null
               /\ RedoResult(rooms'[r]) = Null
  ]_vars

\* C23: a disconnect of one participant from a room that still has other
\* participants removes only that participant's presence record: the other
\* records, the room's log and pointer, and every other room are unchanged.
C23_LeaveKeepsLog ==
  [][
    \A c \in Conns :
      LET r == currentRoom[c]
      IN  ( /\ Disconnect(c)
            /\ currentUser[c] # Null
            /\ Participants(r) \ {c} # {} )
          => /\ DOMAIN rooms' = DOMAIN rooms
             /\ DOMAIN rooms'[r].users = DOMAIN rooms[r].users \ {c}
             /\ \A t \in DOMAIN rooms'[r].users :
                  rooms'[r].users[t] = rooms[r].users[t]
             /\ rooms'[r].operations = rooms[r].operations
             /\ rooms'[r].currentIndex = rooms[r].currentIndex
             /\ \A q \in DOMAIN rooms \ {r} : rooms'[q] = rooms[q]
  ]_vars

\* c2 has left the room it shared with c1; c1 is still there and the stroke
\* c1 committed and undid is still in the log
C23_Witness ==
  /\ last.ev = "disconnect"
  /\ last.conn = "c2"
  /\ last.ok
  /\ last.room \in DOMAIN rooms
  /\ DOMAIN rooms[last.room].users = {"c1"}
  /\ Len(rooms[last.room].operations) = 1
  /\ rooms[last.room].currentIndex = -1

----------------------------------------------------------------------------
(* Claims about two rooms side by side, checked under SpecTwoRooms *)

\* socket c handled a draw:end, undo, redo or clear-canvas in this step
HistoryRequest(c) ==
  \/ \E s \in StrokeIds : DrawEnd(c, s, nOps + 1)
  \/ Undo(c)
  \/ Redo(c)
  \/ ClearCanvas(c)

\* C17: an append, undo, redo or clear handled for one room leaves the log
\* and pointer of every other room unchanged, and no operation committed in
\* one room is in the log of another.
C17_RoomsIsolated ==
  [][
    /\ \A c \in Conns :
         HistoryRequest(c) =>
           \A q \in DOMAIN rooms \ {currentRoom[c]} :
             /\ q \in DOMAIN rooms'
             /\ rooms'[q].operations = rooms[q].operations
             /\ rooms'[q].currentIndex = rooms[q].currentIndex
    /\ \A r, q \in DOMAIN rooms' :
         r # q => Seqs(rooms'[r].operations) \cap Seqs(rooms'[q].operations) = {}
  ]_vars

\* both rooms hold one operation; the one of 'r1' has just been undone and
\* the one of 'default' is still visible
C17_Witness ==
  /\ last.ev = "undo"
  /\ last.room = "r1"
  /\ last.ok
  /\ Len(rooms["r1"].operations) = 1
  /\ rooms["r1"].currentIndex = -1
  /\ Len(rooms["default"].operations) = 1
  /\ rooms["default"].currentIndex = 0

StrokeAndHistoryTypes ==
  {"draw:start", "draw:append", "draw:final", "undo", "redo", "clear-canvas"}

\* C18: a connection joined to a room receives no draw:start, draw:append,
\* draw:final, undo, redo or clear-canvas message produced by activity in a
\* different room.
C18_NoMessageFromOtherRoom ==
  [][
    \A t \in Conns :
      ( /\ currentUser[t] # Null
        /\ Grown(t)
        /\ Newest(t).type \in StrokeAndHistoryTypes )
      => last'.room = currentRoom[t]
  ]_vars

----------------------------------------------------------------------------
(* Claims about who is told, checked under SpecServer *)

\* C10: on every successful undo, redo or clear the server emits exactly one
\* message of that kind to every participant of the room, the requester
\* included.
C10_AllParticipantsTold ==
  [][
    \A c \in Conns :
      ( /\ Undo(c) \/ Redo(c) \/ ClearCanvas(c)
        /\ last'.ok )
      => \A t \in DOMAIN rooms[currentRoom[c]].users \cup {c} :
           /\ Grown(t)
           /\ Newest(t).type = last'.ev
  ]_vars

\* C25: no two operations in the log of one room carry the same id, whoever
\* committed them and whenever.
C25_UniqueIds ==
  \A r \in DOMAIN rooms :
    \A i, j \in 1..Len(rooms[r].operations) :
      (i # j) => (rooms[r].operations[i].id # rooms[r].operations[j].id)

----------------------------------------------------------------------------
(* Claims about the results of undo and redo, checked under SpecState *)

\* C29: an undo that succeeds returns the operation that was at the pointer
\* before the call together with the decremented pointer; a redo that
\* succeeds returns the operation at the incremented pointer together with
\* that pointer; after either, the log has the same length and contents.
C29_UndoRedoResults ==
  [][
    LET before == rooms[DriverRoom]
        after  == rooms'[DriverRoom]
    IN  /\ (CallUndo /\ last'.ok) =>
              /\ UndoResult(before).operation =
                   before.operations[before.currentIndex + 1]
              /\ UndoResult(before).currentIndex = before.currentIndex - 1
              /\ after.currentIndex = before.currentIndex - 1
              /\ after.operations = before.operations
        /\ (CallRedo /\ last'.ok) =>
              /\ after.currentIndex = before.currentIndex + 1
              /\ RedoResult(before).operation =
                   after.operations[after.currentIndex + 1]
              /\ RedoResult(before).currentIndex = after.currentIndex
              /\ after.operations = before.operations
  ]_vars

\* an undo succeeded and the redo that followed it succeeded too, on a log of
\* two operations or more
C29_Witness ==
  /\ last.ev = "redo"
  /\ last.prevEv = "undo"
  /\ last.ok
  /\ last.pre.currentIndex >= 0
  /\ Len(rooms[DriverRoom].operations) >= 2

----------------------------------------------------------------------------
(* Claims about how a room's log changes, checked under SpecState *)

\* C30: in one step the log of a room stays as it is, or becomes empty
\* (clear), or becomes the operations up to the pointer followed by one new
\* operation (append, with the operations past the pointer cut off); an
\* operation that is in the log before and after the step is at the same
\* index with the same id and the same fields, points included, so two
\* such operations keep their order.
C30_LogChangesOnlyAtTheEnd ==
  [][
    \A r \in DOMAIN rooms \cap DOMAIN rooms' :
      LET a   == rooms[r].operations
          b   == rooms'[r].operations
          idx == rooms[r].currentIndex
      IN  /\ \/ b = a
             \/ b = <<>>
             \/ /\ Len(b) = idx + 2
                /\ SubSeq(b, 1, idx + 1) = SubSeq(a, 1, idx + 1)
                /\ \A i \in 1..Len(a) : b[Len(b)].seq # a[i].seq
          /\ \A i \in 1..Len(a), j \in 1..Len(b) :
                (a[i].seq = b[j].seq) => (i = j /\ a[i] = b[j])
  ]_vars

\* an operation was added with the pointer on the first of three operations:
\* the first operation stayed and the two past the pointer were cut off
C30_Witness ==
  /\ last.ev = "addOperation"
  /\ Len(last.pre.operations) = 3
  /\ last.pre.currentIndex = 0
  /\ Len(rooms[DriverRoom].operations) = 2
  /\ rooms[DriverRoom].operations[1] = last.pre.operations[1]

----------------------------------------------------------------------------
(* Claims about statistics, checked under SpecStats *)

\* C28: the statistics sent in answer to get-stats are null when the room of
\* the requester does not exist; otherwise they report the log length, the
\* pointer and the number of participants of that room, canUndo is true
\* exactly when undo() on the room would return a result, and canRedo is
\* true exactly when redo() would.
C28_StatsReport ==
  [][
    \A c \in Conns :
      GetStatsRequest(c) =>
        LET r == currentRoom[c]
            s == Newest(c).stats
        IN  /\ Grown(c)
            /\ Newest(c).type = "stats"
            /\ (r \notin DOMAIN rooms) => (s = Null)
            /\ (r \in DOMAIN rooms) =>
                  /\ s # Null
                  /\ s.totalOperations = Len(rooms[r].operations)
                  /\ s.currentIndex = rooms[r].currentIndex
                  /\ s.activeUsers = Cardinality(DOMAIN rooms[r].users)
                  /\ s.canUndo <=> (UndoResult(rooms[r]) # Null)
                  /\ s.canRedo <=> (RedoResult(rooms[r]) # Null)
  ]_vars

\* statistics were just sent for a room whose newest operation is undone
C28_Witness ==
  /\ last.ev = "get-stats"
  /\ Len(outbox[last.conn]) > 0
  /\ LET m == outbox[last.conn][Len(outbox[last.conn])]
     IN  /\ m.type = "stats"
         /\ m.stats # Null
         /\ m.stats.canRedo
         /\ m.stats.totalOperations > 0

\* statistics were just sent to a requester whose room does not exist
C28_WitnessNoRoom ==
  /\ last.ev = "get-stats"
  /\ Len(outbox[last.conn]) > 0
  /\ LET m == outbox[last.conn][Len(outbox[last.conn])]
     IN  /\ m.type = "stats"
         /\ m.stats = Null

----------------------------------------------------------------------------
(* Claims about the registry alone, checked under SpecRegistry *)

\* C26: no two participants that are in the same room at the same time have
\* the same assigned color.
C26_UniqueColors ==
  \A r \in DOMAIN rooms :
    \A t, u \in DOMAIN rooms[r].users :
      (t # u) => (rooms[r].users[t].color # rooms[r].users[u].color)

\* C32: the registry starts with color index 0; every addUserToRoom call,
\* in whatever room, gives the user the palette entry at the index modulo
\* the palette size and advances the index by exactly one; a
\* removeUserFromRoom call, with or without the deletion of the room, leaves
\* the index as it is.
C32_OneRotatingIndex ==
  [][
    \A r \in RoomIds, u \in DriverAuthors :
      /\ CallAddUserToRoom(r, u) =>
           /\ rooms'[r].users[u].color = colorIndex % PaletteSize
           /\ colorIndex' = colorIndex + 1
      /\ CallRemoveUserFromRoom(r, u) =>
           /\ colorIndex' = colorIndex
           /\ \A q \in DOMAIN rooms' : \A t \in DOMAIN rooms'[q].users :
                rooms'[q].users[t].color = rooms[q].users[t].color
  ]_vars

\* the thirteenth call gave the first palette entry again, to the only user
\* of the only room
C32_Witness ==
  /\ last.ev = "addUserToRoom"
  /\ colorIndex = PaletteSize + 1
  /\ rooms[last.room].users[last.conn].color = 0
  /\ DOMAIN rooms = {last.room}
  /\ DOMAIN rooms[last.room].users = {last.conn}

----------------------------------------------------------------------------
(* Claims about incomplete payloads, checked under SpecMalformed *)

\* C27: a draw:start whose stroke id or whose point is missing is dropped:
\* it changes no stroke buffer and nothing is sent to anyone.
C27_IncompleteStartDropped ==
  [][
    \A c \in Conns, y \in Styles :
      ( \E s \in StrokeIds \cup {NoStrokeId}, p \in Points \cup {NoPoint} :
          /\ (s = NoStrokeId) \/ (p = NoPoint)
          /\ DrawStart(c, s, y, p) )
      => UNCHANGED <<inflightStrokes, outbox>>
  ]_vars

----------------------------------------------------------------------------
(* Claims about the life of a stroke, checked under SpecStroke *)

\* C31: a draw:start naming a stroke id that already has a buffer on that
\* connection discards none of the points accumulated for it: the points
\* held before are still the first points held after.
C31_StartKeepsAccumulated ==
  [][
    \A c \in Conns, s \in StrokeIds, y \in Styles, p \in Points :
      (DrawStart(c, s, y, p) /\ s \in DOMAIN inflightStrokes[c]) =>
        LET old == inflightStrokes[c][s].points
            new == inflightStrokes'[c][s].points
        IN  /\ Len(new) >= Len(old)
            /\ SubSeq(new, 1, Len(old)) = old
  ]_vars

\* C33: whatever stroke message a connection that has not joined a room
\* sends, the log and pointer of every room stay as they are and no message
\* is queued for any participant of any room.
C33_UnjoinedIsInert ==
  [][
    \A c \in Conns :
      ( /\ currentUser[c] = Null
        /\ \/ \E s \in StrokeIds, y \in Styles, p \in Points : DrawStart(c, s, y, p)
           \/ \E s \in StrokeIds, b \in Batches : DrawAppend(c, s, b)
           \/ \E s \in StrokeIds : DrawEnd(c, s, nOps + 1) )
      => /\ \A r \in DOMAIN rooms :
              /\ r \in DOMAIN rooms'
              /\ rooms'[r].operations = rooms[r].operations
              /\ rooms'[r].currentIndex = rooms[r].currentIndex
         /\ \A r \in DOMAIN rooms : \A t \in Participants(r) :
              outbox'[t] = outbox[t]
  ]_vars

----------------------------------------------------------------------------
(* Claims about concurrent streams, checked under SpecStreams *)

\* points is the first point of a draw:start of socket c for stroke id s,
\* followed by points of draw:append batches of c for s and by nothing else
StreamOf(c, s, points) ==
  /\ Len(points) >= 1
  /\ points[1] = FirstPoint(c, s)
  /\ \A i \in 2..Len(points) : points[i] = NextPoint(c, s)

\* C34: the points of every committed draw operation are the first point of
\* its draw:start followed by the batches of the same connection's
\* draw:append messages for that stroke id, in arrival order: a draw:start
\* sets the buffer to its point, a draw:append adds its batch at the end of
\* that buffer, a draw:end commits the buffer as it is, none of them touches
\* another buffer, and no log holds a point of another connection or of
\* another stroke id.
C34_PointsOfOneStream ==
  [][
    /\ \A c \in Streamers : \A s \in StreamIds(c) :
         LET others == [t \in Conns |->
                          [x \in DOMAIN inflightStrokes[t] \ (IF t = c THEN {s} ELSE {})
                             |-> inflightStrokes[t][x]]]
             othersAfter == [t \in Conns |->
                          [x \in DOMAIN inflightStrokes'[t] \ (IF t = c THEN {s} ELSE {})
                             |-> inflightStrokes'[t][x]]]
         IN  /\ (\E y \in Styles : DrawStart(c, s, y, FirstPoint(c, s))) =>
                   /\ inflightStrokes'[c][s].points = <<FirstPoint(c, s)>>
                   /\ othersAfter = others
             /\ ( /\ DrawAppend(c, s, <<NextPoint(c, s)>>)
                  /\ s \in DOMAIN inflightStrokes[c] ) =>
                   /\ inflightStrokes'[c][s].points =
                        inflightStrokes[c][s].points \o <<NextPoint(c, s)>>
                   /\ othersAfter = others
             /\ ( /\ DrawEnd(c, s, nOps + 1)
                  /\ s \in DOMAIN inflightStrokes[c] ) =>
                   LET log == rooms'[currentRoom[c]].operations
                   IN  /\ log[Len(log)].points = inflightStrokes[c][s].points
                       /\ log[Len(log)].userId = c
                       /\ log[Len(log)].strokeId = s
                       /\ othersAfter = others
    /\ \A r \in DOMAIN rooms' : \A i \in 1..Len(rooms'[r].operations) :
         LET op == rooms'[r].operations[i]
         IN  StreamOf(op.userId, op.strokeId, op.points)
  ]_vars

\* c1 committed stroke s1 with its first point and one batch while c2 holds a
\* buffer under the same stroke id and c1 holds one under another id
C34_Witness ==
  /\ last.ev = "draw:end"
  /\ last.conn = "c1"
  /\ last.ok
  /\ Len(rooms["default"].operations) >= 1
  /\ LET log == rooms["default"].operations
     IN  /\ log[Len(log)].strokeId = "s1"
         /\ log[Len(log)].points = <<FirstPoint("c1", "s1"), NextPoint("c1", "s1")>>
  /\ "s1" \in DOMAIN inflightStrokes["c2"]
  /\ "s2" \in DOMAIN inflightStrokes["c1"]

\* C35: when the last message the server handled was a draw:end of socket c
\* that committed stroke id s, a further draw:end of c for s adds no
\* operation to any log, moves no pointer and queues no message.
C35_CommittedOnce ==
  [][
    \A c \in Conns, s \in StrokeIds :
      ( /\ last.ev = "draw:end"
        /\ last.conn = c
        /\ last.ok
        /\ LET log == rooms[last.room].operations
           IN  log[Len(log)].strokeId = s
        /\ DrawEnd(c, s, nOps + 1) )
      => UNCHANGED <<rooms, nOps, outbox, inflightStrokes>>
  ]_vars

\* c1 sent draw:end for s1 a second time: the log still holds the one
\* operation of the first
C35_Witness ==
  /\ last.ev = "draw:end"
  /\ last.conn = "c1"
  /\ ~last.ok
  /\ Len(rooms["default"].operations) = 1
  /\ rooms["default"].operations[1].userId = "c1"
  /\ rooms["default"].operations[1].strokeId = "s1"
  /\ "s1" \notin DOMAIN inflightStrokes["c1"]

----------------------------------------------------------------------------
(* Claims about the order of commits, checked under SpecRoom *)

\* C36: a draw:end for a stroke that has a buffer puts one operation of the
\* sender right after the log entry at the pointer as it is when the
\* draw:end is handled, and moves the pointer onto it; the operations of a
\* log are in the order in which their draw:end messages were handled,
\* whatever the order of the draw:start messages; an undo, redo or clear
\* leaves every stroke buffer as it is, so the stroke can still be ended.
C36_CommitOrderIsEndOrder ==
  [][
    /\ \A c \in Conns, s \in StrokeIds :
         ( /\ DrawEnd(c, s, nOps + 1)
           /\ s \in DOMAIN inflightStrokes[c]
           /\ currentRoom[c] \in DOMAIN rooms ) =>
           LET room  == rooms[currentRoom[c]]
               after == rooms'[currentRoom[c]]
               kept  == room.currentIndex + 1
           IN  /\ Len(after.operations) = kept + 1
               /\ SubSeq(after.operations, 1, kept) =
                    SubSeq(room.operations, 1, kept)
               /\ after.operations[kept + 1].userId = c
               /\ after.operations[kept + 1].seq = nOps + 1
               /\ after.currentIndex = kept
    /\ \A c \in Conns :
         (Undo(c) \/ Redo(c) \/ ClearCanvas(c)) => UNCHANGED inflightStrokes
    /\ \A r \in DOMAIN rooms' :
         \A i, j \in 1..Len(rooms'[r].operations) :
           (i < j) => (rooms'[r].operations[i].seq < rooms'[r].operations[j].seq)
  ]_vars

\* c1 ended its stroke after the only operation of the log had been undone or
\* cleared, while c2 has a stroke in progress: the stroke of c1 was committed
\* as the first operation
C36_Witness ==
  /\ last.ev = "draw:end"
  /\ last.conn = "c1"
  /\ last.ok
  /\ Len(rooms["default"].operations) = 1
  /\ rooms["default"].operations[1].seq = 2
  /\ rooms["default"].currentIndex = 0
  /\ "s1" \in DOMAIN inflightStrokes["c2"]

----------------------------------------------------------------------------
(* Claims about the user list of a client, checked under SpecUsers *)

\* C37: for every connected client that has joined a room and has taken in
\* every message sent to it, the user ids in the client's users map are the
\* participant ids of the server's map for the room the client is in.
C37_ClientUsersMatchRoom ==
  \A c \in Conns :
    ( /\ status[c] = "open"
      /\ currentUser[c] # Null
      /\ outbox[c] = <<>> )
    => /\ currentRoom[c] \in DOMAIN rooms
       /\ DOMAIN users[c] = DOMAIN rooms[currentRoom[c]].users

----------------------------------------------------------------------------
(* Claims about the strokes a client shows in progress, checked under        *)
(* SpecRemote                                                                 *)

\* C38: an entry that a client holds in remoteStrokes when the author of the
\* stroke has disconnected is eventually removed.
C38_RemoteStrokeRemoved ==
  \A c \in Conns, s \in StrokeIds :
    (s \in DOMAIN remoteStrokes[c] /\ \A t \in Drawer : status[t] = "closed")
      ~> (s \notin DOMAIN remoteStrokes[c])

====
